---- MODULE Spec2Model ----
(***************************************************************************)
(* Data-access layer of the todo service (src/crud.py, src/models.py).     *)
(*                                                                         *)
(* The collection is a function from ObjectIds to documents.  A Python     *)
(* value that may be None is written as a sequence: <<>> is None and <<v>> *)
(* is the value v, so that "is not None" and truthiness are different      *)
(* tests, as they are in the code.  Strings that are searched are          *)
(* sequences of one-character strings.  Timestamps are clock readings in   *)
(* the store's resolution.                                                 *)
(***************************************************************************)
EXTENDS Integers, Sequences, FiniteSets, TLC

VARIABLES store, nextOid, clock, deleted, call, tasks

vars == <<store, nextOid, clock, deleted, call, tasks>>

\* ------------------------------------------------------------------ bounds
MaxTodos == 1     \* documents in the collection at once, under Spec
MaxListed == 2    \* documents in the collection at once, under SpecQuery
MaxOids == 2      \* ObjectIds the driver generates
MaxClock == 1     \* clock readings run from 0 to MaxClock
MaxSkip == 2
MaxLimit == 2

\* ------------------------------------------------------- Python values
None == <<>>
Some(v) == <<v>>
Val(x) == x[1]

\* bool(x) of an Optional value whose empty value is `empty`: None and the
\* empty value are falsy
Truthy(x, empty) == x # None /\ Val(x) # empty

Min(a, b) == IF a < b THEN a ELSE b

\* ------------------------------------------------------------ identifiers
\* An identifier string is described by its length, whether all its
\* characters are hexadecimal digits, and the number its digits spell.
HexId(n) == [len |-> 24, hex |-> TRUE, n |-> n]
MalformedIds ==
    { [len |-> 0, hex |-> TRUE, n |-> 0],
      [len |-> 24, hex |-> FALSE, n |-> 1] }
IdStrings == { HexId(n) : n \in 1..MaxOids } \cup MalformedIds

\* ObjectId.is_valid(todo_id): a string is a valid id when it is 24
\* hexadecimal digits
IsValidAlways(todo_id) == TRUE
IsValid(todo_id) == todo_id.len = 24 /\ todo_id.hex

\* ObjectId(todo_id): the id the string spells, None when the constructor
\* raises InvalidId
ObjectId(todo_id) == IF todo_id.len = 24 /\ todo_id.hex THEN Some(todo_id.n) ELSE None

\* ------------------------------------------------------------ results
RetNone == [kind |-> "None"]
RetTodo(t) == [kind |-> "todo", todo |-> t]
RetBool(b) == [kind |-> "bool", val |-> b]
RetRaise(e) == [kind |-> "raise", exc |-> e]
RetList(l) == [kind |-> "list", todos |-> l]
RetInt(n) == [kind |-> "int", val |-> n]

\* --------------------------------------------------------------- models
Fields == {"title", "description", "completed", "priority", "due_date", "tags"}

\* TodoCreate: title required, the rest defaulted
TodoCreate(title, description, completed, priority, due_date, tags) ==
    [title |-> Some(title), description |-> description,
     completed |-> Some(completed), priority |-> Some(priority),
     due_date |-> due_date, tags |-> Some(tags)]

CreateReqs ==
    { TodoCreate(<<"M", "i">>, None, FALSE, "high", None, <<>>),
      TodoCreate(<<"e", "g">>, Some(<<"m", "I">>), TRUE, "low", Some(1), <<"t">>) }

\* TodoUpdate: every field Optional, None when not given
NoUpdate == [f \in Fields |-> None]
UpdateWith(f, v) == [NoUpdate EXCEPT ![f] = Some(v)]

UpdateReqs ==
    { NoUpdate,
      UpdateWith("completed", FALSE),
      UpdateWith("tags", <<>>),
      [NoUpdate EXCEPT !["priority"] = Some("high"), !["title"] = Some(<<"e", "g">>)] }

\* TodoResponse(**doc): the document with _id read through the alias id
TodoResponse(oid, doc) ==
    [f \in DOMAIN doc \cup {"id"} |-> IF f = "id" THEN Some(oid) ELSE doc[f]]

\* ----------------------------------------------------------- collection
\* collection.find_one({"_id": oid})
FindOne(s, oid) == IF oid \in DOMAIN s THEN Some(s[oid]) ELSE None

\* collection.update_one({"_id": oid}, {"$set": setd}): the new collection
\* and modified_count, which counts a matched document only when the
\* $set changed it
UpdateOne(s, oid, setd) ==
    IF oid \notin DOMAIN s
    THEN [store |-> s, modified_count |-> 0]
    ELSE LET doc == s[oid]
             new == [f \in DOMAIN doc |-> IF f \in DOMAIN setd THEN setd[f] ELSE doc[f]]
         IN  [store |-> [s EXCEPT ![oid] = new],
              modified_count |-> IF new = doc THEN 0 ELSE 1]

\* collection.delete_one({"_id": oid})
DeleteOne(s, oid) ==
    IF oid \in DOMAIN s
    THEN [store |-> [o \in DOMAIN s \ {oid} |-> s[o]], deleted_count |-> 1]
    ELSE [store |-> s, deleted_count |-> 0]

\* the _id the driver generates for an inserted document: next is the
\* driver's counter, so no ObjectId is generated twice
NewObjectIdReused(s, next) ==
    IF (1..next) \ DOMAIN s = {} THEN next
    ELSE CHOOSE o \in (1..next) \ DOMAIN s : \A x \in (1..next) \ DOMAIN s : o <= x
NewObjectId(s, next) == next

\* collection.insert_one(doc): the new collection and inserted_id
InsertOne(s, next, doc) ==
    LET oid == NewObjectId(s, next)
    IN  [store |-> [o \in DOMAIN s \cup {oid} |-> IF o = oid THEN doc ELSE s[o]],
         inserted_id |-> oid]

\* ------------------------------------------------------------- TodoCRUD
\* Each operation is given the collection and its arguments and yields the
\* collection it leaves and what it returns.
Out(s, ret) == [store |-> s, ret |-> ret]

\* get_todo
GetTodo(s, todo_id) ==
    IF ~IsValid(todo_id) THEN RetNone
    ELSE IF ObjectId(todo_id) = None THEN RetRaise("InvalidId")
    ELSE LET oid == Val(ObjectId(todo_id))
             todo == FindOne(s, oid)
         IN  IF todo # None THEN RetTodo(TodoResponse(oid, Val(todo))) ELSE RetNone

\* create_todo: t1 and t2 are the two readings of datetime.utcnow()
CreateTodo(s, next, todo, t1, t2) ==
    LET todo_dict == [f \in Fields \cup {"created_at", "updated_at"} |->
                        IF f = "created_at" THEN Some(t1)
                        ELSE IF f = "updated_at" THEN Some(t2)
                        ELSE todo[f]]
        result == InsertOne(s, next, todo_dict)
        created_todo == FindOne(result.store, result.inserted_id)
    IN  Out(result.store, RetTodo(TodoResponse(result.inserted_id, Val(created_todo))))

\* the keys of {k: v for k, v in todo_update.dict().items() if v is not None}
PresentTruthy(todo_update) ==
    { k \in DOMAIN todo_update :
        /\ todo_update[k] # None
        /\ k = "completed" => Val(todo_update[k])
        /\ k = "tags" => Val(todo_update[k]) # <<>> }
Present(todo_update) == { k \in DOMAIN todo_update : todo_update[k] # None }

\* not update_dict: the dictionary is empty
NotDictNever(keys) == FALSE
NotDict(keys) == keys = {}

\* update_dict["updated_at"] = datetime.utcnow()
WithoutUpdatedAt(todo_update, keys, now) == [k \in keys |-> todo_update[k]]
WithUpdatedAt(todo_update, keys, now) ==
    [k \in keys \cup {"updated_at"} |-> IF k = "updated_at" THEN Some(now) ELSE todo_update[k]]

\* update_todo: now is the reading of datetime.utcnow()
UpdateTodo(s, todo_id, todo_update, now) ==
    IF ~IsValid(todo_id) THEN Out(s, RetNone)
    ELSE LET keys == Present(todo_update)
         IN  IF NotDict(keys) THEN Out(s, GetTodo(s, todo_id))
             ELSE IF ObjectId(todo_id) = None THEN Out(s, RetRaise("InvalidId"))
             ELSE LET update_dict == WithUpdatedAt(todo_update, keys, now)
                      result == UpdateOne(s, Val(ObjectId(todo_id)), update_dict)
                  IN  IF result.modified_count # 0
                      THEN Out(result.store, GetTodo(result.store, todo_id))
                      ELSE Out(result.store, RetNone)

\* delete_todo
DeleteTodo(s, todo_id) ==
    IF ~IsValid(todo_id) THEN Out(s, RetBool(FALSE))
    ELSE IF ObjectId(todo_id) = None THEN Out(s, RetRaise("InvalidId"))
    ELSE LET result == DeleteOne(s, Val(ObjectId(todo_id)))
         IN  Out(result.store, RetBool(result.deleted_count > 0))

\* new_status = not todo.completed
NewStatusTrue(todo) == TRUE
NewStatus(todo) == ~Val(todo.completed)

\* toggle_todo: now is the reading of datetime.utcnow()
ToggleTodo(s, todo_id, now) ==
    IF ~IsValid(todo_id) THEN Out(s, RetNone)
    ELSE LET todo == GetTodo(s, todo_id)
         IN  IF todo.kind = "raise" THEN Out(s, todo)
             ELSE IF todo.kind = "None" THEN Out(s, RetNone)
             ELSE LET new_status == NewStatus(todo.todo)
                      result == UpdateOne(s, Val(ObjectId(todo_id)),
                                          [completed |-> Some(new_status),
                                           updated_at |-> Some(now)])
                  IN  IF result.modified_count # 0
                      THEN Out(result.store, GetTodo(result.store, todo_id))
                      ELSE Out(result.store, RetNone)

\* -------------------------------------------------------------- queries
\* {"$regex": pattern, "$options": "i"} on a field: the field is a string
\* and the pattern is found somewhere in it, letters compared without
\* case, "." standing for any character
Lower(c) == IF c = "M" THEN "m" ELSE IF c = "I" THEN "i" ELSE c

RegexFound(pattern, field) ==
    /\ field # None
    /\ \E start \in 0..(Len(Val(field)) - Len(pattern)) :
         \A j \in 1..Len(pattern) :
            \/ pattern[j] = "."
            \/ Lower(pattern[j]) = Lower(Val(field)[start + j])

\* the documents a filter document selects; a key that is None is not in
\* the filter document
Matches(doc, filter_dict) ==
    /\ filter_dict.completed # None => doc.completed = filter_dict.completed
    /\ filter_dict.priority # None => doc.priority = filter_dict.priority
    /\ filter_dict.or # None =>
          \/ RegexFound(Val(filter_dict.or), doc.title)
          \/ RegexFound(Val(filter_dict.or), doc.description)

Find(s, filter_dict) == { oid \in DOMAIN s : Matches(s[oid], filter_dict) }

\* filter_dict as get_todos builds it
ListFilter(completed, priority, search) ==
    [completed |-> IF completed # None THEN completed ELSE None,
     priority |-> IF Truthy(priority, "") THEN priority ELSE None,
     or |-> IF Truthy(search, <<>>) THEN search ELSE None]

\* filter_dict as get_todos_count builds it
CountFilterTruthy(completed, priority, search) ==
    [completed |-> IF Truthy(completed, FALSE) THEN completed ELSE None,
     priority |-> IF Truthy(priority, "") THEN priority ELSE None,
     or |-> IF Truthy(search, <<>>) THEN search ELSE None]
CountFilter(completed, priority, search) ==
    [completed |-> IF completed # None THEN completed ELSE None,
     priority |-> IF Truthy(priority, "") THEN priority ELSE None,
     or |-> IF Truthy(search, <<>>) THEN search ELSE None]

\* sort("created_at", -1): the orders the engine may return the selected
\* documents in; documents with equal created_at come in any order
SortedByCreatedDesc(s, oids) ==
    { order \in [1..Cardinality(oids) -> oids] :
        /\ \A i, j \in DOMAIN order : i # j => order[i] # order[j]
        /\ \A i, j \in DOMAIN order :
              i < j => Val(s[order[i]].created_at) >= Val(s[order[j]].created_at) }

\* skip(skip).limit(limit) on the sorted cursor; limit(0) is no limit
SkipLimit(order, skip, limit) ==
    LET last == IF limit = 0 THEN Len(order) ELSE Min(Len(order), skip + limit)
    IN  [i \in 1..(IF last > skip THEN last - skip ELSE 0) |-> order[skip + i]]

\* cursor.to_list(length): at most length documents
ToList(cursor, length) == [i \in 1..Min(Len(cursor), length) |-> cursor[i]]

\* get_todos: the lists it may return
GetTodos(s, skip, limit, completed, priority, search) ==
    LET oids == Find(s, ListFilter(completed, priority, search))
    IN  { [i \in DOMAIN l |-> TodoResponse(l[i], s[l[i]])] :
            l \in { ToList(SkipLimit(order, skip, limit), limit) :
                      order \in SortedByCreatedDesc(s, oids) } }

\* get_todos_count
GetTodosCount(s, completed, priority, search) ==
    Cardinality(Find(s, CountFilter(completed, priority, search)))

\* sort("updated_at", -1)
SortedByUpdatedDesc(s, oids) ==
    { order \in [1..Cardinality(oids) -> oids] :
        /\ \A i, j \in DOMAIN order : i # j => order[i] # order[j]
        /\ \A i, j \in DOMAIN order :
              i < j => Val(s[order[i]].updated_at) >= Val(s[order[j]].updated_at) }

\* [TodoResponse(**todo) for todo in todos]
Responses(s, order) == [i \in DOMAIN order |-> TodoResponse(order[i], s[order[i]])]

\* get_todos_by_tag: find({"tags": tag}) selects the documents whose tags
\* hold the tag
GetTodosByTag(s, tag) ==
    LET oids == { o \in DOMAIN s : \E i \in DOMAIN Val(s[o].tags) : Val(s[o].tags)[i] = tag }
    IN  { Responses(s, order) : order \in SortedByCreatedDesc(s, oids) }

\* get_completed_todos
GetCompletedTodos(s) ==
    LET oids == { o \in DOMAIN s : s[o].completed = Some(TRUE) }
    IN  { Responses(s, order) : order \in SortedByUpdatedDesc(s, oids) }

\* get_pending_todos
GetPendingTodos(s) ==
    LET oids == { o \in DOMAIN s : s[o].completed = Some(FALSE) }
    IN  { Responses(s, order) : order \in SortedByCreatedDesc(s, oids) }

\* ---------------------------------------------------------------- state
\* store    the todos collection, _id -> document
\* nextOid  the next ObjectId the driver generates
\* clock    the time, as datetime.utcnow() reads it
\* deleted  the ObjectIds that were deleted (history)
\* call     the operation the caller awaits or has been answered, with its
\*          arguments and what it returned; idle between two operations
Idle == [op |-> "idle"]

Init ==
    /\ store = << >>
    /\ nextOid = 1
    /\ clock = 0
    /\ deleted = {}
    /\ call = Idle
    /\ tasks = << >>

\* the document an identifier string names before an operation (history)
Before(s, todo_id) ==
    IF todo_id \in MalformedIds THEN None ELSE FindOne(s, todo_id.n)

\* the clock readings an operation can take: time does not run backwards
\* and may or may not have moved since the last reading
Readings(from) == { t \in from..(from + 1) : t <= MaxClock }

CreateUpTo(n) ==
    /\ call = Idle
    /\ nextOid <= MaxOids
    /\ Cardinality(DOMAIN store) < n
    /\ \E todo \in CreateReqs : \E t1 \in Readings(clock) : \E t2 \in Readings(t1) :
         LET out == CreateTodo(store, nextOid, todo, t1, t2)
         IN  /\ store' = out.store
             /\ nextOid' = nextOid + 1
             /\ clock' = t2
             /\ call' = [op |-> "create", req |-> todo, ret |-> out.ret]
    /\ UNCHANGED <<deleted, tasks>>

Create == CreateUpTo(MaxTodos)

Get ==
    /\ call = Idle
    /\ \E todo_id \in IdStrings :
         call' = [op |-> "get", id |-> todo_id, ret |-> GetTodo(store, todo_id)]
    /\ UNCHANGED <<store, nextOid, clock, deleted, tasks>>

Update ==
    /\ call = Idle
    /\ \E todo_id \in IdStrings : \E todo_update \in UpdateReqs : \E now \in Readings(clock) :
         LET out == UpdateTodo(store, todo_id, todo_update, now)
         IN  /\ store' = out.store
             /\ clock' = now
             /\ call' = [op |-> "update", id |-> todo_id, req |-> todo_update,
                         before |-> Before(store, todo_id), ret |-> out.ret]
    /\ UNCHANGED <<nextOid, deleted, tasks>>

Delete ==
    /\ call = Idle
    /\ \E todo_id \in IdStrings :
         LET out == DeleteTodo(store, todo_id)
         IN  /\ store' = out.store
             /\ deleted' = deleted \cup (DOMAIN store \ DOMAIN out.store)
             /\ call' = [op |-> "delete", id |-> todo_id, ret |-> out.ret]
    /\ UNCHANGED <<nextOid, clock, tasks>>

Toggle ==
    /\ call = Idle
    /\ \E todo_id \in IdStrings : \E now \in Readings(clock) :
         LET out == ToggleTodo(store, todo_id, now)
         IN  /\ store' = out.store
             /\ clock' = now
             /\ call' = [op |-> "toggle", id |-> todo_id,
                         before |-> Before(store, todo_id), ret |-> out.ret]
    /\ UNCHANGED <<nextOid, deleted, tasks>>

Completeds == { None, Some(FALSE), Some(TRUE) }
Priorities == { None, Some(""), Some("high"), Some("low") }
Searches == { None, Some(<<>>), Some(<<"m", "i">>), Some(<<".", "g">>) }

List ==
    /\ call = Idle
    /\ \E skip \in 0..MaxSkip : \E limit \in 0..MaxLimit :
       \E completed \in Completeds : \E priority \in Priorities : \E search \in Searches :
       \E todos \in GetTodos(store, skip, limit, completed, priority, search) :
         call' = [op |-> "list", skip |-> skip, limit |-> limit, completed |-> completed,
                  priority |-> priority, search |-> search, ret |-> RetList(todos)]
    /\ UNCHANGED <<store, nextOid, clock, deleted, tasks>>

Count ==
    /\ call = Idle
    /\ \E completed \in Completeds : \E priority \in Priorities : \E search \in Searches :
         call' = [op |-> "count", completed |-> completed, priority |-> priority,
                  search |-> search,
                  ret |-> RetInt(GetTodosCount(store, completed, priority, search))]
    /\ UNCHANGED <<store, nextOid, clock, deleted, tasks>>

\* the caller takes the result; the next operation starts after it
Return ==
    /\ call # Idle
    /\ call' = Idle
    /\ UNCHANGED <<store, nextOid, clock, deleted, tasks>>

Next == Create \/ Get \/ Update \/ Delete \/ Toggle \/ Return

Spec == Init /\ [][Next]_vars

\* the collection under queries: documents are created and deleted, and
\* listed and counted
QCreate == CreateUpTo(MaxListed)

NextQuery == QCreate \/ Delete \/ List \/ Count \/ Return

SpecQuery == Init /\ [][NextQuery]_vars

\* ======================================================== REST front end
\* A storage round trip that fails raises inside the data-access call and
\* the call has no effect; the exception reaches the front end.
Failing(out, s, fail) == IF fail THEN Out(s, RetRaise("StorageError")) ELSE out

\* the operations on one id return before any round trip for an id that is
\* not valid, so a failing storage is reached only with a valid id
Reached(todo_id, fail) == fail /\ IsValid(todo_id)

\* A path is a sequence of segments. A segment has its text and, for when a
\* route takes it as an identifier, the identifier string it is.
Word(text, len) == [text |-> text, id |-> [len |-> len, hex |-> FALSE, n |-> 0]]
IdSeg(todo_id) == [text |-> "<id>", id |-> todo_id]

Lit(text) == [kind |-> "lit", text |-> text]
Param(name) == [kind |-> "param", text |-> name]
Route(method, pattern, handler) == [method |-> method, pattern |-> pattern, handler |-> handler]

\* the routes in the order main.py declares them
Routes ==
    << Route("GET", << >>, "root"),
       Route("POST", <<Lit("todos")>>, "create_todo"),
       Route("GET", <<Lit("todos")>>, "get_todos"),
       Route("GET", <<Lit("todos"), Param("todo_id")>>, "get_todo"),
       Route("PUT", <<Lit("todos"), Param("todo_id")>>, "update_todo"),
       Route("DELETE", <<Lit("todos"), Param("todo_id")>>, "delete_todo"),
       Route("PATCH", <<Lit("todos"), Param("todo_id"), Lit("toggle")>>, "toggle_todo"),
       Route("GET", <<Lit("todos"), Lit("completed")>>, "get_completed_todos"),
       Route("GET", <<Lit("todos"), Lit("pending")>>, "get_pending_todos"),
       Route("GET", <<Lit("todos"), Lit("tag"), Param("tag")>>, "get_todos_by_tag"),
       Route("GET", <<Lit("stats")>>, "get_stats") >>

\* a route's path matches: literal segments are equal, a parameter takes
\* any one segment that is not empty
PathMatches(pattern, path) ==
    /\ Len(pattern) = Len(path)
    /\ \A i \in DOMAIN pattern :
          IF pattern[i].kind = "lit" THEN path[i].text = pattern[i].text
          ELSE path[i].id.len > 0

\* the router: the first route in declaration order whose path and method
\* match; a path that matches with another method only is 405, no path 404
Dispatch(method, path) ==
    LET full == { i \in DOMAIN Routes :
                    PathMatches(Routes[i].pattern, path) /\ Routes[i].method = method }
        partial == { i \in DOMAIN Routes : PathMatches(Routes[i].pattern, path) }
    IN  IF full # {}
        THEN Routes[CHOOSE i \in full : \A j \in full : i <= j].handler
        ELSE IF partial # {} THEN "405" ELSE "404"

\* responses
Http(status, body) == [status |-> status, body |-> body]
Detail(text) == [kind |-> "detail", detail |-> text]
In(s, resp) == [store |-> s, resp |-> resp]

\* an exception no handler catches: the framework answers 500
Unhandled(exc) == Http(500, Detail("Internal Server Error"))

\* create_todo (POST /todos)
RestCreateTodo(s, next, todo, t1, t2, fail) ==
    LET out == Failing(CreateTodo(s, next, todo, t1, t2), s, fail)
    IN  IF out.ret.kind = "raise"
        THEN In(out.store, Http(400, Detail(out.ret.exc)))
        ELSE In(out.store, Http(201, out.ret))

\* TodoListResponse
TodoListResponse(todos, total, page, limit, skip) ==
    [kind |-> "page", todos |-> todos, total |-> total, page |-> page, limit |-> limit,
     has_next |-> (skip + limit) < total, has_prev |-> page > 1]

\* get_todos (GET /todos): the responses it may give
RestGetTodos(s, page, limit, completed, priority, search, fail) ==
    IF fail THEN { In(s, Http(500, Detail("StorageError"))) }
    ELSE LET skip == (page - 1) * limit
             total == GetTodosCount(s, completed, priority, search)
         IN  { In(s, Http(200, TodoListResponse(todos, total, page, limit, skip))) :
                 todos \in GetTodos(s, skip, limit, completed, priority, search) }

\* get_todo (GET /todos/{todo_id})
RestGetTodo(s, todo_id, fail) ==
    LET out == Failing(Out(s, GetTodo(s, todo_id)), s, Reached(todo_id, fail))
    IN  IF out.ret.kind = "raise" THEN In(out.store, Unhandled(out.ret.exc))
        ELSE IF out.ret.kind = "None" THEN In(out.store, Http(404, Detail("Todo not found")))
        ELSE In(out.store, Http(200, out.ret))

\* update_todo (PUT /todos/{todo_id}): todo_update is None without a body
RestUpdateTodo(s, todo_id, todo_update, now, fail) ==
    IF todo_update = None THEN In(s, Http(400, Detail("Update data is required")))
    ELSE LET out == Failing(UpdateTodo(s, todo_id, Val(todo_update), now), s, Reached(todo_id, fail))
         IN  IF out.ret.kind = "raise" THEN In(out.store, Unhandled(out.ret.exc))
             ELSE IF out.ret.kind = "None"
             THEN In(out.store, Http(404, Detail("Todo not found")))
             ELSE In(out.store, Http(200, out.ret))

\* delete_todo (DELETE /todos/{todo_id})
RestDeleteTodoNoContent(s, todo_id, fail) ==
    LET out == Failing(DeleteTodo(s, todo_id), s, Reached(todo_id, fail))
    IN  IF out.ret.kind = "raise" THEN In(out.store, Unhandled(out.ret.exc))
        ELSE In(out.store, Http(204, [kind |-> "empty"]))
RestDeleteTodo(s, todo_id, fail) ==
    LET out == Failing(DeleteTodo(s, todo_id), s, Reached(todo_id, fail))
    IN  IF out.ret.kind = "raise" THEN In(out.store, Unhandled(out.ret.exc))
        ELSE IF ~out.ret.val THEN In(out.store, Http(404, Detail("Todo not found")))
        ELSE In(out.store, Http(204, [kind |-> "empty"]))

\* toggle_todo (PATCH /todos/{todo_id}/toggle)
RestToggleTodo(s, todo_id, now, fail) ==
    LET out == Failing(ToggleTodo(s, todo_id, now), s, Reached(todo_id, fail))
    IN  IF out.ret.kind = "raise" THEN In(out.store, Unhandled(out.ret.exc))
        ELSE IF out.ret.kind = "None" THEN In(out.store, Http(404, Detail("Todo not found")))
        ELSE In(out.store, Http(200, out.ret))

\* get_completed_todos, get_pending_todos, get_todos_by_tag: the responses
\* each may give
RestList(s, lists, fail) ==
    IF fail THEN { In(s, Unhandled("StorageError")) }
    ELSE { In(s, Http(200, RetList(todos))) : todos \in lists }

\* round(completed / total * 100, 2) in hundredths, 0 when total is 0
CompletionRate(completed, total) ==
    IF total > 0 THEN (2 * completed * 10000 + total) \div (2 * total) ELSE 0

\* the statistics both front ends compute
Stats(s) ==
    LET total == GetTodosCount(s, None, None, None)
        completed == GetTodosCount(s, Some(TRUE), None, None)
    IN  [kind |-> "stats", total_todos |-> total, completed_todos |-> completed,
         pending_todos |-> GetTodosCount(s, Some(FALSE), None, None),
         completion_rate |-> CompletionRate(completed, total),
         high |-> GetTodosCount(s, None, Some("high"), None),
         medium |-> GetTodosCount(s, None, Some("medium"), None),
         low |-> GetTodosCount(s, None, Some("low"), None)]

\* get_stats (GET /stats)
RestGetStats(s, fail) ==
    IF fail THEN In(s, Http(500, Detail("StorageError"))) ELSE In(s, Http(200, Stats(s)))

\* a request: method, path, body (None without one), query parameters of
\* GET /todos, and whether the storage round trip it causes fails
Request(method, path, body, page, limit, completed, fail) ==
    [method |-> method, path |-> path, body |-> body, page |-> page, limit |-> limit,
     completed |-> completed, fail |-> fail]

Todos == Word("todos", 5)
RestIds == { todo_id \in IdStrings : todo_id.len > 0 }
FrontCreates == { TodoCreate(<<"M", "i">>, None, FALSE, "high", None, << >>) }
FrontUpdates == { NoUpdate, UpdateWith("completed", FALSE) }
Pages == {1, 2}
Limits == {1, 2}

RestRequests ==
    { Request("GET", << >>, None, 0, 0, None, FALSE) }
    \cup { Request("POST", <<Todos>>, Some(todo), 0, 0, None, fail) :
             todo \in FrontCreates, fail \in BOOLEAN }
    \cup { Request("GET", <<Todos>>, None, page, limit, completed, FALSE) :
             page \in Pages, limit \in Limits, completed \in {None, Some(FALSE)} }
    \cup { Request(method, <<Todos, IdSeg(todo_id)>>, None, 0, 0, None, fail) :
             method \in {"GET", "PUT", "DELETE"}, todo_id \in RestIds, fail \in BOOLEAN }
    \cup { Request("PUT", <<Todos, IdSeg(todo_id)>>, Some(todo_update), 0, 0, None, fail) :
             todo_id \in RestIds, todo_update \in FrontUpdates, fail \in BOOLEAN }
    \cup { Request("PATCH", <<Todos, IdSeg(todo_id), Word("toggle", 6)>>, None, 0, 0, None, fail) :
             todo_id \in RestIds, fail \in BOOLEAN }
    \cup { Request("GET", path, None, 1, 1, None, fail) :
             path \in { <<Todos>>,
                        <<Todos, Word("completed", 9)>>,
                        <<Todos, Word("pending", 7)>>,
                        <<Todos, Word("tag", 3), Word("t", 1)>>,
                        <<Word("stats", 5)>>,
                        <<Word("stats", 5), Word("t", 1)>> },
             fail \in BOOLEAN }
    \cup { Request("PATCH", <<Todos>>, None, 0, 0, None, FALSE) }

\* the application: the router and the handler it finds; the outcomes a
\* request may have, each the collection it leaves and the response
Serve(s, next, req, t1, t2) ==
    LET handler == Dispatch(req.method, req.path)
    IN  CASE handler = "root" ->
               { In(s, Http(200, Detail("Todo App API is running!"))) }
          [] handler = "create_todo" ->
               { RestCreateTodo(s, next, Val(req.body), t1, t2, req.fail) }
          [] handler = "get_todos" ->
               RestGetTodos(s, req.page, req.limit, req.completed, None, None, req.fail)
          [] handler = "get_todo" -> { RestGetTodo(s, req.path[2].id, req.fail) }
          [] handler = "update_todo" ->
               \* the body is a required parameter: without one the
               \* request is rejected before the handler runs
               IF req.body = None
               THEN { In(s, Http(422, Detail("Field required"))) }
               ELSE { RestUpdateTodo(s, req.path[2].id, req.body, t1, req.fail) }
          [] handler = "delete_todo" -> { RestDeleteTodo(s, req.path[2].id, req.fail) }
          [] handler = "toggle_todo" -> { RestToggleTodo(s, req.path[2].id, t1, req.fail) }
          [] handler = "get_completed_todos" -> RestList(s, GetCompletedTodos(s), req.fail)
          [] handler = "get_pending_todos" -> RestList(s, GetPendingTodos(s), req.fail)
          [] handler = "get_todos_by_tag" ->
               RestList(s, GetTodosByTag(s, req.path[3].text), req.fail)
          [] handler = "get_stats" -> { RestGetStats(s, req.fail) }
          [] handler = "405" -> { In(s, Http(405, Detail("Method Not Allowed"))) }
          [] OTHER -> { In(s, Http(404, Detail("Not Found"))) }

\* what a front-end operation leaves: the collection, the driver's counter
\* and the deleted ids follow from the collection it leaves
Leaves(after, t) ==
    /\ (DOMAIN after \ DOMAIN store # {})
          => (nextOid <= MaxOids /\ Cardinality(DOMAIN store) < MaxTodos)
    /\ store' = after
    /\ nextOid' = IF DOMAIN after \ DOMAIN store # {} THEN nextOid + 1 ELSE nextOid
    /\ deleted' = deleted \cup (DOMAIN store \ DOMAIN after)
    /\ clock' = t
    /\ UNCHANGED tasks

Rest ==
    /\ call = Idle
    /\ \E req \in RestRequests : \E t1 \in Readings(clock) : \E t2 \in Readings(t1) :
       \E r \in Serve(store, nextOid, req, t1, t2) :
         /\ Dispatch(req.method, req.path) # "create_todo" => t2 = t1
         /\ Leaves(r.store, t2)
         /\ call' = [op |-> "rest", req |-> req,
                     handler |-> Dispatch(req.method, req.path), resp |-> r.resp]

\* ======================================================== Tool front end
\* A date string is described by its length, whether it is in ISO-8601
\* format, and the time it then spells.
IsoDate(t) == [len |-> 10, iso |-> TRUE, t |-> t]
MalformedDate == [len |-> 8, iso |-> FALSE, t |-> 0]
EmptyDate == [len |-> 0, iso |-> FALSE, t |-> 0]

\* datetime.fromisoformat(due_date), inside `if due_date:` and
\* `except ValueError`: the date, or the ValueError caught
FromIsoFormat(due_date) ==
    IF due_date # None /\ Val(due_date).len > 0
    THEN IF Val(due_date).iso
         THEN [kind |-> "date", val |-> Some(Val(due_date).t)]
         ELSE [kind |-> "ValueError", val |-> None]
    ELSE [kind |-> "date", val |-> None]

\* the field constraints of TodoBase and TodoUpdate, for the fields given
PriorityPattern == {"low", "medium", "high"}
Validates(model) ==
    /\ model.title # None => Len(Val(model.title)) >= 1
    /\ model.priority # None => Val(model.priority) \in PriorityPattern

\* the dictionaries the tools return
ToolDict(keys, records) ==
    [kind |-> "dict", keys |-> keys, success |-> TRUE, records |-> records]
ErrorDict(message) ==
    [kind |-> "dict", keys |-> {"error"}, success |-> FALSE, records |-> << >>,
     error |-> message]

\* datetime.isoformat() and str(ObjectId)
IsoString(t) == [iso |-> t]
Str(oid) == HexId(oid)

\* the dictionary a tool builds from a record, with the keys it writes
RecordKeys == Fields \cup {"id", "created_at", "updated_at"}
Echo(todo, keys) ==
    [k \in keys |->
       IF k = "id" THEN Some(Str(Val(todo.id)))
       ELSE IF k \in {"created_at", "updated_at"} THEN Some(IsoString(Val(todo[k])))
       ELSE IF k = "due_date"
       THEN (IF todo.due_date # None THEN Some(IsoString(Val(todo.due_date))) ELSE None)
       ELSE todo[k]]

\* try: ... except Exception as e: return {"error": ...} around a tool body
Propagated(r) == r
Caught(r) ==
    IF r.resp.kind = "raise" THEN In(r.store, ErrorDict("Failed")) ELSE r

\* the arguments of a tool call: every keyword Optional, None when left out
NoArgs == [f \in Fields |-> None]

\* create_todo
CreatedKeys == RecordKeys \ {"updated_at"}
ToolCreateTodo(s, next, args, t1, t2, fail) ==
    LET parsed_due_date == FromIsoFormat(args.due_date)
        todo_data == [args EXCEPT !.completed = Some(FALSE),
                        !.priority = IF args.priority = None THEN Some("medium") ELSE @,
                        !.due_date = parsed_due_date.val,
                        !.tags = IF Truthy(args.tags, << >>) THEN @ ELSE Some(<< >>)]
    IN  Caught(
          IF parsed_due_date.kind = "ValueError" THEN In(s, ErrorDict("Invalid date format"))
          ELSE IF ~Validates(todo_data) THEN In(s, RetRaise("ValidationError"))
          ELSE LET out == Failing(CreateTodo(s, next, todo_data, t1, t2), s, fail)
               IN  IF out.ret.kind = "raise" THEN In(out.store, out.ret)
                   ELSE In(out.store, ToolDict({"success", "message", "todo"},
                                               <<Echo(out.ret.todo, CreatedKeys)>>)))

\* get_todos: the dictionaries it may return
ToolGetTodos(s, page, limit, completed, priority, search, fail) ==
    IF fail THEN { Caught(In(s, RetRaise("StorageError"))) }
    ELSE LET skip == (page - 1) * limit
         IN  { In(s, ToolDict({"success", "todos", "pagination"},
                              [i \in 1..Len(todos) |-> Echo(todos[i], RecordKeys)])) :
                 todos \in GetTodos(s, skip, limit, completed, priority, search) }

\* one record or the error of its absence
ToolRecord(out) ==
    Caught(IF out.ret.kind = "raise" THEN In(out.store, out.ret)
           ELSE IF out.ret.kind = "None" THEN In(out.store, ErrorDict("not found"))
           ELSE In(out.store, ToolDict({"success", "message", "todo"},
                                       <<Echo(out.ret.todo, RecordKeys)>>)))

\* get_todo
ToolGetTodo(s, todo_id, fail) ==
    LET r == ToolRecord(Failing(Out(s, GetTodo(s, todo_id)), s, Reached(todo_id, fail)))
    IN  IF r.resp.kind = "dict" /\ "todo" \in r.resp.keys
        THEN In(r.store, ToolDict({"success", "todo"}, r.resp.records)) ELSE r

\* update_todo
ToolUpdateTodo(s, todo_id, args, now, fail) ==
    LET parsed_due_date == FromIsoFormat(args.due_date)
        update_data == [args EXCEPT !.due_date = parsed_due_date.val]
    IN  IF parsed_due_date.kind = "ValueError" THEN In(s, ErrorDict("Invalid date format"))
        ELSE IF ~Validates(update_data) THEN Caught(In(s, RetRaise("ValidationError")))
        ELSE ToolRecord(Failing(UpdateTodo(s, todo_id, update_data, now), s,
                                Reached(todo_id, fail)))

\* delete_todo
ToolDeleteTodo(s, todo_id, fail) ==
    LET out == Failing(DeleteTodo(s, todo_id), s, Reached(todo_id, fail))
    IN  Caught(IF out.ret.kind = "raise" THEN In(out.store, out.ret)
               ELSE IF ~out.ret.val THEN In(out.store, ErrorDict("not found"))
               ELSE In(out.store, ToolDict({"success", "message"}, << >>)))

\* toggle_todo
ToolToggleTodo(s, todo_id, now, fail) ==
    ToolRecord(Failing(ToggleTodo(s, todo_id, now), s, Reached(todo_id, fail)))

\* get_completed_todos, get_pending_todos, get_todos_by_tag: the
\* dictionaries they may return, given the lists the operation may return
ToolList(s, lists, keys, fail) ==
    IF fail THEN { Caught(In(s, RetRaise("StorageError"))) }
    ELSE { In(s, ToolDict(keys, [i \in 1..Len(todos) |-> Echo(todos[i], RecordKeys)])) :
             todos \in lists }

\* get_todo_stats
ToolGetTodoStats(s, fail) ==
    Caught(IF fail THEN In(s, RetRaise("StorageError"))
           ELSE In(s, ToolDict({"success", "stats"}, << >>)))

\* a tool call: the tool, its arguments, and whether the storage round trip
\* it causes fails
ToolCall(tool, todo_id, args, fail) ==
    [tool |-> tool, todo_id |-> todo_id, args |-> args, fail |-> fail]

NoId == [len |-> 0, hex |-> TRUE, n |-> 0]
Title == <<"M", "i">>
CreateArgs ==
    { [NoArgs EXCEPT !.title = Some(Title), !.due_date = Some(IsoDate(1)),
                     !.tags = Some(<<"t">>)],
      [NoArgs EXCEPT !.title = Some(Title), !.due_date = Some(MalformedDate)],
      [NoArgs EXCEPT !.title = Some(Title), !.priority = Some("urgent"),
                     !.due_date = Some(EmptyDate)] }
UpdateArgs ==
    { NoArgs,
      [NoArgs EXCEPT !.completed = Some(FALSE)],
      [NoArgs EXCEPT !.completed = Some(TRUE), !.due_date = Some(IsoDate(1))],
      [NoArgs EXCEPT !.completed = Some(TRUE), !.due_date = Some(MalformedDate)],
      [NoArgs EXCEPT !.title = Some(<< >>)] }

ToolCalls ==
    { ToolCall("create_todo", NoId, args, fail) : args \in CreateArgs, fail \in BOOLEAN }
    \cup { ToolCall(tool, todo_id, NoArgs, fail) :
             tool \in {"get_todo", "delete_todo", "toggle_todo"},
             todo_id \in IdStrings, fail \in BOOLEAN }
    \cup { ToolCall("update_todo", todo_id, args, fail) :
             todo_id \in IdStrings, args \in UpdateArgs, fail \in BOOLEAN }
    \cup { ToolCall(tool, NoId, NoArgs, fail) :
             tool \in {"get_todos", "get_completed_todos", "get_pending_todos",
                       "get_todos_by_tag", "get_todo_stats"},
             fail \in BOOLEAN }

\* the outcomes a tool call may have
Invoke(s, next, c, t1, t2) ==
    CASE c.tool = "create_todo" -> { ToolCreateTodo(s, next, c.args, t1, t2, c.fail) }
      [] c.tool = "get_todos" -> ToolGetTodos(s, 1, MaxLimit, None, None, None, c.fail)
      [] c.tool = "get_todo" -> { ToolGetTodo(s, c.todo_id, c.fail) }
      [] c.tool = "update_todo" -> { ToolUpdateTodo(s, c.todo_id, c.args, t1, c.fail) }
      [] c.tool = "delete_todo" -> { ToolDeleteTodo(s, c.todo_id, c.fail) }
      [] c.tool = "toggle_todo" -> { ToolToggleTodo(s, c.todo_id, t1, c.fail) }
      [] c.tool = "get_completed_todos" ->
           ToolList(s, GetCompletedTodos(s), {"success", "todos", "count"}, c.fail)
      [] c.tool = "get_pending_todos" ->
           ToolList(s, GetPendingTodos(s), {"success", "todos", "count"}, c.fail)
      [] c.tool = "get_todos_by_tag" ->
           ToolList(s, GetTodosByTag(s, "t"), {"success", "todos", "count", "tag"}, c.fail)
      [] OTHER -> { ToolGetTodoStats(s, c.fail) }

Tool ==
    /\ call = Idle
    /\ \E c \in ToolCalls : \E t1 \in Readings(clock) : \E t2 \in Readings(t1) :
       \E r \in Invoke(store, nextOid, c, t1, t2) :
         /\ c.tool # "create_todo" => t2 = t1
         /\ Leaves(r.store, t2)
         /\ call' = [op |-> "tool", req |-> c, resp |-> r.resp]

NextFront == Rest \/ Tool \/ Return

SpecFront == Init /\ [][NextFront]_vars

\* ====================================================== concurrent calls
\* Two calls on one id run as coroutines: each `await` of a storage round
\* trip is a point where the other call may run, and each round trip is
\* atomic on the document. A task has the operation, its arguments, the
\* round trip it is about to make (pc), its local variables todo and
\* result.modified_count, what it returned, and the document as it was when
\* the two calls were made (history).
Pending == [kind |-> "pending"]
FirstTrip(op) ==
    IF op = "toggle" THEN "find_one" ELSE IF op = "update" THEN "update_one" ELSE "delete_one"
Task(op, oid, todo_update, doc) ==
    [op |-> op, oid |-> oid, todo_update |-> todo_update, pc |-> FirstTrip(op),
     todo |-> None, modified_count |-> 0, ret |-> Pending, before |-> doc]

Ops == {"toggle", "update", "delete"}
RacingUpdates == { todo_update \in UpdateReqs : ~NotDict(Present(todo_update)) }

\* the calls are made
Start ==
    /\ call = Idle
    /\ tasks = << >>
    /\ \E oid \in DOMAIN store : \E a \in Ops : \E b \in Ops : \E todo_update \in RacingUpdates :
         tasks' = <<Task(a, oid, todo_update, store[oid]), Task(b, oid, todo_update, store[oid])>>
    /\ UNCHANGED <<store, nextOid, clock, deleted, call>>

Returns(i, ret) == [tasks EXCEPT ![i].pc = "done", ![i].ret = ret]

\* toggle_todo: todo = await self.get_todo(todo_id)
ToggleFindOne ==
    \E i \in 1..Len(tasks) :
      /\ tasks[i].pc = "find_one"
      /\ LET todo == GetTodo(store, HexId(tasks[i].oid))
         IN  tasks' = IF todo.kind = "None" THEN Returns(i, RetNone)
                      ELSE [tasks EXCEPT ![i].pc = "update_one", ![i].todo = Some(todo.todo)]
      /\ UNCHANGED <<store, nextOid, clock, deleted, call>>

\* toggle_todo and update_todo: result = await self.collection.update_one(...)
AwaitUpdateOne ==
    \E i \in 1..Len(tasks) : \E now \in Readings(clock) :
      /\ tasks[i].pc = "update_one"
      /\ LET t == tasks[i]
             setd == IF t.op = "toggle"
                     THEN [completed |-> Some(NewStatus(Val(t.todo))), updated_at |-> Some(now)]
                     ELSE WithUpdatedAt(t.todo_update, Present(t.todo_update), now)
             result == UpdateOne(store, t.oid, setd)
         IN  /\ store' = result.store
             /\ tasks' = IF result.modified_count # 0
                         THEN [tasks EXCEPT ![i].pc = "get_todo",
                                            ![i].modified_count = result.modified_count]
                         ELSE Returns(i, RetNone)
      /\ clock' = now
      /\ UNCHANGED <<nextOid, deleted, call>>

\* toggle_todo and update_todo: return await self.get_todo(todo_id)
AwaitGetTodo ==
    \E i \in 1..Len(tasks) :
      /\ tasks[i].pc = "get_todo"
      /\ tasks' = Returns(i, GetTodo(store, HexId(tasks[i].oid)))
      /\ UNCHANGED <<store, nextOid, clock, deleted, call>>

\* delete_todo: result = await self.collection.delete_one(...)
AwaitDeleteOne ==
    \E i \in 1..Len(tasks) :
      /\ tasks[i].pc = "delete_one"
      /\ LET result == DeleteOne(store, tasks[i].oid)
         IN  /\ store' = result.store
             /\ deleted' = deleted \cup (DOMAIN store \ DOMAIN result.store)
             /\ tasks' = Returns(i, RetBool(result.deleted_count > 0))
      /\ UNCHANGED <<nextOid, clock, call>>

\* both calls have returned
Finish ==
    /\ tasks # << >>
    /\ \A i \in 1..Len(tasks) : tasks[i].pc = "done"
    /\ tasks' = << >>
    /\ UNCHANGED <<store, nextOid, clock, deleted, call>>

NextRace ==
    \/ Create \/ Return \/ Start
    \/ ToggleFindOne \/ AwaitUpdateOne \/ AwaitGetTodo \/ AwaitDeleteOne \/ Finish

SpecRace == Init /\ [][NextRace]_vars

\* ================================================================ claims
\* the ObjectId an operation's well-formed identifier names
Oid(c) == c.id.n
IdOps == {"get", "update", "delete", "toggle"}

\* C1: for every identifier that is not validly formed, in every store
\* state, get, update and toggle return the absent result and delete
\* returns false; none raises and none changes the store.
C1_MalformedIdIsAbsent ==
    [][ (call = Idle /\ call'.op \in IdOps /\ call'.id \in MalformedIds)
        => /\ store' = store
           /\ call'.ret = IF call'.op = "delete" THEN RetBool(FALSE) ELSE RetNone ]_vars

C1_Witness ==
    /\ call.op = "toggle"
    /\ call.id \in MalformedIds
    /\ call.ret = RetNone
    /\ DOMAIN store # {}

\* C2: an update request with no field present, on an existing id, returns
\* the current record and leaves the stored record unchanged, updated_at
\* included.
C2_EmptyUpdateIsNoOp ==
    (call.op = "update" /\ call.req = NoUpdate /\ call.before # None)
    => /\ Oid(call) \in DOMAIN store
       /\ store[Oid(call)] = Val(call.before)
       /\ call.ret = RetTodo(TodoResponse(Oid(call), Val(call.before)))

C2_Witness ==
    /\ call.op = "update"
    /\ call.req = NoUpdate
    /\ call.before # None
    /\ call.ret.kind = "todo"
    /\ clock > Val(call.ret.todo.updated_at)

\* the present fields of an update request all carry the stored values
SameValues(req, doc) == \A f \in Fields : req[f] # None => req[f] = doc[f]

\* C3 as stated: an update whose present fields all carry the values
\* already stored leaves updated_at as it was.
C3_AsStated ==
    (call.op = "update" /\ call.before # None /\ SameValues(call.req, Val(call.before)))
    => store[Oid(call)].updated_at = Val(call.before).updated_at

\* C3, amended: an update with at least one present field sets updated_at
\* to the time of the update whether or not a value changed; only an
\* update with no present field leaves updated_at as it was.
C3_StampedWhenAnyFieldPresent ==
    (call.op = "update" /\ call.before # None)
    => /\ Oid(call) \in DOMAIN store
       /\ store[Oid(call)].updated_at =
             IF call.req = NoUpdate THEN Val(call.before).updated_at ELSE Some(clock)

C3_Witness ==
    /\ call.op = "update"
    /\ call.before # None
    /\ call.req # NoUpdate
    /\ SameValues(call.req, Val(call.before))
    /\ store[Oid(call)].updated_at # Val(call.before).updated_at

\* C4: update is a field-level patch: every field present in the request
\* (completed=false and an empty tags list included) holds the request's
\* value, every absent field holds its previous value, and no update or
\* toggle changes the id or created_at of any record.
C4_FieldLevelPatch ==
    [][ (call = Idle /\ call'.op \in {"update", "toggle"})
        => /\ DOMAIN store' = DOMAIN store
           /\ \A o \in DOMAIN store : store'[o].created_at = store[o].created_at
           /\ (call'.op = "update" /\ call'.before # None)
              => /\ \A f \in Fields :
                      store'[Oid(call')][f] =
                         IF call'.req[f] # None THEN call'.req[f] ELSE store[Oid(call')][f]
                 /\ \A o \in DOMAIN store \ {Oid(call')} : store'[o] = store[o]
           /\ call'.ret.kind = "todo" => call'.ret.todo.id = Some(Oid(call')) ]_vars

C4_Witness ==
    /\ call.op = "update"
    /\ call.req = UpdateWith("completed", FALSE)
    /\ call.before # None
    /\ Val(call.before).completed = Some(TRUE)
    /\ store[Oid(call)].completed = Some(FALSE)
    /\ store[Oid(call)].tags = Val(call.before).tags

\* C5: the record create returns has a non-empty id and a created_at
\* equal to its updated_at.
C5_CreatedEqualsUpdated ==
    call.op = "create"
    => /\ call.ret.kind = "todo"
       /\ call.ret.todo.id # None
       /\ call.ret.todo.created_at = call.ret.todo.updated_at

\* what get_todo shows of the record a toggle was given
Shown == GetTodo(store, call.id)

\* C6 as stated: after a toggle of an existing id, get shows completed
\* negated, updated_at strictly greater than before, and every other field
\* unchanged.
C6_AsStated ==
    (call.op = "toggle" /\ call.before # None)
    => /\ Shown.kind = "todo"
       /\ Shown.todo.completed = Some(~Val(Val(call.before).completed))
       /\ Val(Shown.todo.updated_at) > Val(Val(call.before).updated_at)
       /\ \A f \in (Fields \cup {"created_at"}) \ {"completed"} :
             Shown.todo[f] = Val(call.before)[f]

\* C6, amended: after a toggle of an existing id, get shows completed
\* negated, updated_at set to the time of the toggle, which is not less
\* than the value before and equals it when the clock has not moved since,
\* and every other field unchanged; the toggle returns that record.
C6_ToggleFlipsAndStamps ==
    (call.op = "toggle" /\ call.before # None)
    => /\ Shown.kind = "todo"
       /\ call.ret = Shown
       /\ Shown.todo.completed = Some(~Val(Val(call.before).completed))
       /\ Shown.todo.updated_at = Some(clock)
       /\ Val(Shown.todo.updated_at) >= Val(Val(call.before).updated_at)
       /\ \A f \in (Fields \cup {"created_at"}) \ {"completed"} :
             Shown.todo[f] = Val(call.before)[f]

C6_Witness ==
    /\ call.op = "toggle"
    /\ call.before # None
    /\ call.ret.kind = "todo"
    /\ call.ret.todo.completed = Some(TRUE)
    /\ call.ret.todo.updated_at = Val(call.before).updated_at

\* C7: delete on an existing id returns true and removes the record at
\* once; every later delete on that id returns false and get returns the
\* absent result, because no id is given to a record twice.
C7_DeleteThenAbsent ==
    [][ call = Idle
        => /\ (call'.op = "delete" /\ call'.id \notin MalformedIds
                 /\ Oid(call') \in DOMAIN store)
              => (call'.ret = RetBool(TRUE) /\ Oid(call') \notin DOMAIN store')
           /\ (call'.op = "delete" /\ call'.id \notin MalformedIds
                 /\ Oid(call') \in deleted)
              => call'.ret = RetBool(FALSE)
           /\ (call'.op = "get" /\ call'.id \notin MalformedIds /\ Oid(call') \in deleted)
              => call'.ret = RetNone
           /\ deleted' \cap DOMAIN store' = {} ]_vars

C7_Witness ==
    /\ call.op = "delete"
    /\ call.id \notin MalformedIds
    /\ Oid(call) \in deleted
    /\ call.ret = RetBool(FALSE)
    /\ DOMAIN store # {}

\* C8: for every filter combination and in every store state, the count
\* equals the number of records list returns for offset 0 and limit equal
\* to that count, also when the count is 0.
C8_CountEqualsListLength ==
    (/\ call.op = "list"
     /\ call.skip = 0
     /\ call.limit = GetTodosCount(store, call.completed, call.priority, call.search))
    => Len(call.ret.todos) = call.limit

C8_Witness ==
    /\ call.op = "list"
    /\ call.skip = 0
    /\ call.completed = Some(FALSE)
    /\ call.search = Some(<<"m", "i">>)
    /\ call.limit = GetTodosCount(store, call.completed, call.priority, call.search)
    /\ call.limit = 1
    /\ Cardinality(DOMAIN store) = 2
    /\ Len(call.ret.todos) = 1

\* a record satisfies the filters that were supplied: a completed or
\* priority filter is supplied when it is not absent, a search when it is
\* not absent and not empty
Satisfies(doc, completed, priority, search) ==
    /\ completed # None => doc.completed = completed
    /\ priority # None => doc.priority = priority
    /\ (search # None /\ Val(search) # <<>>) =>
          \/ RegexFound(Val(search), doc.title)
          \/ RegexFound(Val(search), doc.description)

\* C9 as stated: list returns exactly the records that satisfy all the
\* supplied filters, by created_at descending, the first offset of them
\* skipped and at most limit returned (none when offset reaches their
\* number).
C9_AsStated ==
    call.op = "list"
    => LET sel == { o \in DOMAIN store :
                      Satisfies(store[o], call.completed, call.priority, call.search) }
           n == Cardinality(sel)
           l == call.ret.todos
       IN  /\ Len(l) = Min(call.limit, IF n > call.skip THEN n - call.skip ELSE 0)
           /\ \E order \in SortedByCreatedDesc(store, sel) :
                 \A i \in DOMAIN l :
                    l[i] = TodoResponse(order[call.skip + i], store[order[call.skip + i]])

\* C10 as stated: in list and count a completed or priority filter
\* constrains the result whenever it is supplied, the value false and the
\* empty string included; only an absent filter imposes no constraint.
C10_AsStated ==
    /\ call.op = "list"
       => \A i \in DOMAIN call.ret.todos :
             /\ call.completed # None => call.ret.todos[i].completed = call.completed
             /\ call.priority # None => call.ret.todos[i].priority = call.priority
    /\ call.op = "count"
       => call.ret.val =
             Cardinality({ o \in DOMAIN store :
                Satisfies(store[o], call.completed, call.priority, call.search) })

\* C18: with no concurrent operation, update returns the record for every
\* existing id and every request with at least one present field, whatever
\* the values and the clock reading; it returns the absent result only for
\* an invalid id or an id no record has.
C18_UpdateOfExistingReturnsRecord ==
    (call.op = "update" /\ call.before # None /\ call.req # NoUpdate)
    => call.ret.kind = "todo"

\* C11: GET /todos/completed is served by the list-completed operation and
\* GET /todos/pending by the list-pending operation, each answering a list of
\* records, and not by the single-record handler of GET /todos/{todo_id}.
C11_CollectionRoutesServed ==
    (call.op = "rest" /\ call.req.method = "GET" /\ Len(call.req.path) = 2
       /\ call.req.path[1].text = "todos" /\ ~call.req.fail)
    => /\ call.req.path[2].text = "completed"
            => (call.handler = "get_completed_todos" /\ call.resp.body.kind = "list")
       /\ call.req.path[2].text = "pending"
            => (call.handler = "get_pending_todos" /\ call.resp.body.kind = "list")

\* the request of a REST call reached the storage: a handler was found, the
\* body it requires was there and the id it names is a valid one
StorageCalled ==
    \/ call.handler \in {"create_todo", "get_todos", "get_completed_todos",
                         "get_pending_todos", "get_todos_by_tag", "get_stats"}
    \/ /\ call.handler \in {"get_todo", "delete_todo", "toggle_todo"}
       /\ IsValid(call.req.path[2].id)
    \/ /\ call.handler = "update_todo"
       /\ call.req.body # None
       /\ IsValid(call.req.path[2].id)

\* C12: on every REST route, a request whose storage call fails is answered
\* with a server-error status (500..599), never a client error or a success.
C12_StorageFailureIsServerError ==
    (call.op = "rest" /\ call.req.fail /\ StorageCalled)
    => (call.resp.status >= 500 /\ call.resp.status <= 599)

\* the TodoUpdate the update tool builds from its arguments, and the
\* arguments from which it builds one
UpdateData(args) == [args EXCEPT !.due_date = FromIsoFormat(args.due_date).val]
ValidUpdateArgs ==
    { args \in UpdateArgs :
        FromIsoFormat(args.due_date).kind = "date" /\ Validates(UpdateData(args)) }

\* a REST answer r and a tool answer t to the same call say the same
Succeeded(r) == r.resp.status >= 200 /\ r.resp.status <= 299
ToolSucceeded(t) == t.resp.kind = "dict" /\ "success" \in t.resp.keys /\ t.resp.success
ToolFailed(t) == t.resp.kind = "dict" /\ "error" \in t.resp.keys
Alike(r, t, fail) ==
    /\ Succeeded(r) <=> ToolSucceeded(t)
    /\ ~fail => (r.resp.status = 404 <=> ToolFailed(t))
    /\ r.store = t.store

ById(method, todo_id, suffix, body, fail) ==
    Request(method, <<Todos, IdSeg(todo_id)>> \o suffix, body, 0, 0, None, fail)

\* C13: for every id and every collection (as it stands between two calls),
\* for each of get, update, delete and toggle given the same arguments, the
\* REST front end answers success exactly when the tool returns success true
\* and, when the storage answers, 404 exactly when the tool returns a
\* dictionary with an error key; both leave the same collection.
C13_AbsentTranslatedAlike ==
    call = Idle =>
    \A todo_id \in RestIds : \A now \in Readings(clock) : \A fail \in BOOLEAN :
      /\ \A r \in Serve(store, nextOid, ById("GET", todo_id, << >>, None, fail), now, now) :
           Alike(r, ToolGetTodo(store, todo_id, fail), fail)
      /\ \A args \in ValidUpdateArgs :
         \A r \in Serve(store, nextOid,
                        ById("PUT", todo_id, << >>, Some(UpdateData(args)), fail), now, now) :
           Alike(r, ToolUpdateTodo(store, todo_id, args, now, fail), fail)
      /\ \A r \in Serve(store, nextOid, ById("DELETE", todo_id, << >>, None, fail), now, now) :
           Alike(r, ToolDeleteTodo(store, todo_id, fail), fail)
      /\ \A r \in Serve(store, nextOid,
                        ById("PATCH", todo_id, <<Word("toggle", 6)>>, None, fail), now, now) :
           Alike(r, ToolToggleTodo(store, todo_id, now, fail), fail)

\* a tool call on a well-formed id that no record has any more returned an
\* error, and the REST front end answers the same call 404
C13_Witness ==
    /\ call.op = "tool" /\ call.req.tool = "delete_todo" /\ ~call.req.fail
    /\ IsValid(call.req.todo_id) /\ call.req.todo_id.n \in deleted
    /\ "error" \in call.resp.keys
    /\ \A r \in Serve(store, nextOid, ById("DELETE", call.req.todo_id, << >>, None, FALSE),
                      clock, clock) : r.resp.status = 404

\* a create or update tool call given a due-date string that is not a date
MalformedDue(c) ==
    /\ c.tool \in {"create_todo", "update_todo"}
    /\ c.args.due_date # None
    /\ Val(c.args.due_date).len > 0 /\ ~Val(c.args.due_date).iso

\* C14: every tool call returns a dictionary holding success = true or an
\* error key, and no exception leaves a tool; create and update given a
\* malformed due-date string return an error dictionary and leave the
\* collection as it was.
C14_ToolsReturnDictionaries ==
    [][call'.op = "tool" =>
         /\ call'.resp.kind = "dict"
         /\ \/ "error" \in call'.resp.keys
            \/ ("success" \in call'.resp.keys /\ call'.resp.success)
         /\ MalformedDue(call'.req) => ("error" \in call'.resp.keys /\ store' = store)]_vars

\* the update tool was called on an existing record with a malformed due
\* date next to a change of its completed flag, and returned an error
C14_Witness ==
    /\ call.op = "tool" /\ call.req.tool = "update_todo" /\ MalformedDue(call.req)
    /\ IsValid(call.req.todo_id) /\ call.req.todo_id.n \in DOMAIN store
    /\ call.req.args.completed = Some(TRUE)
    /\ store[call.req.todo_id.n].completed = Some(FALSE)
    /\ call.resp.kind = "dict" /\ "error" \in call.resp.keys

\* C15: every record echoed by a successful tool response has all of id,
\* title, description, completed, priority, due_date, tags, created_at and
\* updated_at.
C15_FullRecordEchoed ==
    (call.op = "tool" /\ call.resp.kind = "dict" /\ "success" \in call.resp.keys)
    => \A i \in 1..Len(call.resp.records) :
         {"id", "title", "description", "completed", "priority", "due_date", "tags",
          "created_at", "updated_at"} \subseteq DOMAIN call.resp.records[i]

\* both concurrent calls have returned
BothDone == tasks # << >> /\ \A i \in 1..Len(tasks) : tasks[i].pc = "done"

\* C16: when two toggles of the same existing id run concurrently, their
\* round trips interleaved in any order, both flips take effect: once both
\* have returned the record's completed flag is what it was before them.
C16_BothFlipsTakeEffect ==
    (BothDone /\ \A i \in 1..Len(tasks) : tasks[i].op = "toggle")
    => /\ tasks[1].oid \in DOMAIN store
       /\ store[tasks[1].oid].completed = tasks[1].before.completed

\* C17: when an update with a present field and a delete of the same
\* existing id run concurrently, their round trips interleaved in any order,
\* the update returns absent only if its write was not applied
\* (modified_count 0), and the two never both report not found.
C17_LoserOfRaceNotFound ==
    \A u \in {1, 2} : \A d \in {1, 2} :
      (BothDone /\ tasks[u].op = "update" /\ tasks[d].op = "delete")
      => /\ tasks[u].ret.kind = "None" => tasks[u].modified_count = 0
         /\ ~(tasks[u].ret.kind = "None" /\ ~tasks[d].ret.val)

====
